---------------------------- MODULE Spec2Model ----------------------------
(* Model of pyhap.accessories.maxcube: the MaxBridge (discovery, refresh   *)
(* loop) and the Thermostat accessory (characteristic mapping, retrying    *)
(* set-target-temperature task).                                           *)
(*                                                                         *)
(* Temperatures are integers (one unit = one 0.5 degree step); Python's    *)
(* None is the value None below, outside every temperature and mode.       *)
EXTENDS Integers, Sequences, FiniteSets, TLC

\* ---------------------------------------------------------------- bounds
NumDevices  == 1   \* devices the cube reports
MaxTemp     == 1   \* temperatures range over 0..MaxTemp
MaxWrites   == 2   \* target-temperature writes in one behaviour
MaxTimeouts == 2   \* set commands that time out in one behaviour

\* ------------------------------------------------------------- constants
None == -1                       \* Python None
MAX_THERMOSTAT == 1              \* maxcube.device.MAX_THERMOSTAT
MAX_WINDOW_SHUTTER == 4          \* maxcube.device.MAX_WINDOW_SHUTTER
MAX_DEVICE_MODE_AUTOMATIC == 0   \* maxcube.device.MAX_DEVICE_MODE_AUTOMATIC
MAX_DEVICE_MODE_MANUAL == 1      \* maxcube.device.MAX_DEVICE_MODE_MANUAL
DEFAULT_UPDATE_INTERVAL == 60    \* default of the update_interval keyword

DeviceIds  == 1..NumDevices
Temps      == 0..MaxTemp
TempOrNone == Temps \cup {None}
ModeOrNone == {None, MAX_DEVICE_MODE_AUTOMATIC, MAX_DEVICE_MODE_MANUAL}
DeviceTypes == {MAX_THERMOSTAT, MAX_WINDOW_SHUTTER}
\* update_interval as the caller can pass it: left out (None), or a number of seconds.
IntervalArgs == {None, 30}
\* No keyword argument (also: the call is over).
NoKwargs == [update_interval |-> None]

VARIABLES
    devices,      \* the cube's Device objects: id -> [type, actual_temperature, target_temperature, mode]
    cube,         \* MaxBridge.cube: "None" or "MaxCube"
    accessories,  \* MaxBridge.accessories: ids of the devices that have a Thermostat
    chars,        \* characteristic values of each Thermostat (last value set)
    state,        \* bridge lifecycle: "Uninitialized", "Running", "Stopped", "Failed"
    pc,           \* position of MaxBridge.run/update: "wait", "refresh", "exit"
    stop_event,   \* driver.aio_stop_event
    jobs,         \* the _do_set_target_temperature tasks, in scheduling order
    log,          \* number of log records per kind emitted by discover
    last_update,  \* outcome of the last cube.update job: "none", "ok", "timeout"
    stop_pc,      \* where run() was when the stop event was set ("none" while it is clear)
    init_kwargs,  \* keyword arguments of the MaxBridge(...) call; none left once __init__ is over
    update_interval, \* MaxBridge.update_interval (None before __init__)
    updating,     \* cube.update jobs handed to the executor and not yet returned
    hub_io        \* the cube operations performed so far, each with how it was run

vars == <<devices, cube, accessories, chars, state, pc, stop_event, jobs, log,
          last_update, stop_pc, init_kwargs, update_interval, updating, hub_io>>

\* ------------------------------------------------------ Thermostat (pure)

\* Python's `a or b`: b when a is falsy (None or 0), else a.
PyOr(a, b) == IF a = None \/ a = 0 THEN b ELSE a

\* _target_state() that compares device.mode itself, without `or`.
_target_state_no_default(device) ==
    IF device.mode = MAX_DEVICE_MODE_AUTOMATIC THEN 3 ELSE 0

\* Thermostat._target_state
_target_state(device) ==
    IF PyOr(device.mode, MAX_DEVICE_MODE_AUTOMATIC) = MAX_DEVICE_MODE_AUTOMATIC
    THEN 3 ELSE 0

\* Thermostat._current_state
_current_state(device) ==
    IF device.actual_temperature = None \/ device.target_temperature = None
    THEN 0
    ELSE IF device.actual_temperature > device.target_temperature
         THEN 0
         ELSE 1

\* getter_callback of CurrentTemperature
CurrentTemperature_getter(device) ==
    PyOr(device.actual_temperature, device.target_temperature)

\* getter_callback of TargetTemperature
TargetTemperature_getter(device) == device.target_temperature

\* Thermostat.__init__: the initial values given to configure_char
Thermostat_init(device) ==
    [CurrentTemperature         |-> device.actual_temperature,
     TargetTemperature          |-> device.target_temperature,
     CurrentHeatingCoolingState |-> _current_state(device),
     TargetHeatingCoolingState  |-> _target_state(device),
     TemperatureDisplayUnits    |-> 0]

\* An update that leaves TargetTemperature alone and switches the unit.
Thermostat_update_partial(ch, device) ==
    [ch EXCEPT !.CurrentTemperature         = PyOr(device.actual_temperature,
                                                   device.target_temperature),
               !.CurrentHeatingCoolingState = _current_state(device),
               !.TargetHeatingCoolingState  = _target_state(device),
               !.TemperatureDisplayUnits    = 1]

\* Thermostat.update: set_value on four characteristics
Thermostat_update(ch, device) ==
    [ch EXCEPT !.CurrentTemperature         = PyOr(device.actual_temperature,
                                                   device.target_temperature),
               !.TargetTemperature          = device.target_temperature,
               !.CurrentHeatingCoolingState = _current_state(device),
               !.TargetHeatingCoolingState  = _target_state(device)]

\* ------------------------------------------------------------------ Init

\* What the cube can report for one device of the given type.
Readings(type) ==
    IF type = MAX_THERMOSTAT
    THEN [type : {type}, actual_temperature : TempOrNone,
          target_temperature : TempOrNone, mode : ModeOrNone]
    ELSE [type : {type}, actual_temperature : {None},
          target_temperature : {None}, mode : {None}]

DeviceStates == UNION {Readings(ty) : ty \in DeviceTypes}

\* A device the cube has no reading for yet.
Unread(type) ==
    [type |-> type, actual_temperature |-> None,
     target_temperature |-> None, mode |-> None]

\* The state before MaxBridge is constructed, the cube holding devs.
InitWith(devs) ==
    /\ devices \in devs
    /\ cube = "None"
    /\ accessories = {}
    /\ chars = << >>
    /\ state = "Uninitialized"
    /\ pc = "wait"
    /\ stop_event = FALSE
    /\ jobs = << >>
    /\ log = [error |-> 0, info |-> 0]
    /\ last_update = "none"
    /\ stop_pc = "none"
    /\ init_kwargs \in [update_interval : IntervalArgs]
    /\ update_interval = None
    /\ updating = 0
    /\ hub_io = {}

\* A cube with one thermostat (the first device) among other devices, no
\* readings yet.
Init ==
    InitWith({[d \in DeviceIds |->
                 Unread(IF d = 1 THEN MAX_THERMOSTAT ELSE MAX_WINDOW_SHUTTER)]})

\* Any mix of device types with any readings.
InitRefresh == InitWith([DeviceIds -> DeviceStates])

\* --------------------------------------------------------------- MaxBridge

Thermostats == {d \in DeviceIds : devices[d].type = MAX_THERMOSTAT}

\* A constructor without the device.type check.
Thermostat_new_unchecked(device) ==
    [error |-> "none", chars |-> Thermostat_init(device)]

\* Thermostat(cube, device, driver): ValueError before anything is set up when
\* the device is not a thermostat, else the configured characteristics.
Thermostat_new(device) ==
    IF device.type # MAX_THERMOSTAT
    THEN [error |-> "ValueError", chars |-> << >>]
    ELSE [error |-> "none", chars |-> Thermostat_init(device)]

\* add_accessory: acc.chars with the characteristics of the accessory of device i.
add_accessory(acc, i, ch) ==
    [accessories |-> acc.accessories \cup {i},
     chars |-> [d \in acc.accessories \cup {i} |-> IF d = i THEN ch ELSE acc.chars[d]],
     info |-> acc.info,
     error |-> acc.error]

\* A discover() loop that skips other devices without a log record.
RECURSIVE discover_loop_nolog(_, _)
discover_loop_nolog(i, acc) ==
    IF i > NumDevices \/ acc.error # "none" THEN acc
    ELSE IF devices[i].type # MAX_THERMOSTAT
    THEN discover_loop_nolog(i + 1, acc)
    ELSE LET t == Thermostat_new(devices[i]) IN
         IF t.error # "none" THEN [acc EXCEPT !.error = t.error]
         ELSE discover_loop_nolog(i + 1, add_accessory(acc, i, t.chars))

\* The loop of discover() from device i on: an info record for a device that is
\* not a thermostat, a Thermostat accessory for one that is.
RECURSIVE discover_loop(_, _)
discover_loop(i, acc) ==
    IF i > NumDevices \/ acc.error # "none" THEN acc
    ELSE IF devices[i].type # MAX_THERMOSTAT
    THEN discover_loop(i + 1, [acc EXCEPT !.info = @ + 1])
    ELSE LET t == Thermostat_new(devices[i]) IN
         IF t.error # "none" THEN [acc EXCEPT !.error = t.error]
         ELSE discover_loop(i + 1, add_accessory(acc, i, t.chars))

\* MaxBridge.__init__ with MaxCubeConnection succeeding: discover() adds one
\* Thermostat per thermostat device and logs one info record per other device.
discover_ok ==
    /\ state = "Uninitialized"
    /\ cube' = "MaxCube"
    /\ LET r == discover_loop(1, [accessories |-> {}, chars |-> << >>,
                                  info |-> 0, error |-> "none"])
       IN  /\ accessories' = r.accessories
           /\ chars' = r.chars
           /\ log' = [log EXCEPT !.info = r.info]
           /\ state' = IF r.error = "none" THEN "Running" ELSE "Failed"
    /\ init_kwargs' = NoKwargs
    /\ update_interval' = 60
    /\ hub_io' = hub_io \cup {[op |-> "connect", via |-> "inline"], [op |-> "devices", via |-> "inline"]}
    /\ UNCHANGED <<devices, pc, stop_event, jobs, last_update, stop_pc,
                 updating>>

\* MaxBridge.__init__ with MaxCubeConnection raising socket.timeout: the error
\* is logged, self.cube is still None, and `self.cube.devices` raises
\* AttributeError out of discover() and __init__.
discover_timeout ==
    /\ state = "Uninitialized"
    /\ log' = [log EXCEPT !.error = 1]
    /\ state' = "Failed"
    /\ init_kwargs' = NoKwargs
    /\ update_interval' = 60
    /\ hub_io' = hub_io \cup {[op |-> "connect", via |-> "inline"]}
    /\ UNCHANGED <<devices, cube, accessories, chars, pc, stop_event, jobs,
                 last_update, stop_pc, updating>>

\* run() that starts a refresh without looking at the stop event.
run_tick_ignores_stop ==
    /\ state = "Running" /\ pc = "wait"
    /\ pc' = "refresh"
    /\ updating' = updating + 1
    /\ hub_io' = hub_io \cup {[op |-> "update", via |-> "job"]}
    /\ UNCHANGED <<devices, cube, accessories, chars, state, stop_event,
                 jobs, log, last_update, stop_pc, init_kwargs,
                 update_interval>>

\* update() that runs acc.update() before awaiting cube.update.
run_tick_updates_first ==
    /\ state = "Running" /\ pc = "wait" /\ ~stop_event
    /\ chars' = [d \in accessories |-> Thermostat_update(chars[d], devices[d])]
    /\ pc' = "refresh"
    /\ updating' = updating + 1
    /\ hub_io' = hub_io \cup {[op |-> "update", via |-> "job"]}
    /\ UNCHANGED <<devices, cube, accessories, state, stop_event, jobs, log,
                 last_update, stop_pc, init_kwargs, update_interval>>

\* MaxBridge.run: event_wait timed out with the stop event clear; update()
\* hands cube.update to the executor.
run_tick ==
    /\ state = "Running" /\ pc = "wait" /\ ~stop_event
    /\ pc' = "refresh"
    /\ updating' = updating + 1
    /\ hub_io' = hub_io \cup {[op |-> "update", via |-> "job"]}
    /\ UNCHANGED <<devices, cube, accessories, chars, state, stop_event,
                 jobs, log, last_update, stop_pc, init_kwargs,
                 update_interval>>

\* A run() that cancels the retry tasks still running when it returns.
run_exit_cancels_tasks ==
    /\ state = "Running" /\ pc = "wait" /\ stop_event
    /\ state' = "Stopped"
    /\ pc' = "exit"
    /\ jobs' = [i \in 1..Len(jobs) |->
                   IF jobs[i].st = "done" THEN jobs[i]
                   ELSE [jobs[i] EXCEPT !.st = "cancelled"]]
    /\ UNCHANGED <<devices, cube, accessories, chars, stop_event, log,
                 last_update, stop_pc, init_kwargs, update_interval,
                 updating, hub_io>>

\* MaxBridge.run: event_wait returns True, the loop ends.
run_exit ==
    /\ state = "Running" /\ pc = "wait" /\ stop_event
    /\ state' = "Stopped"
    /\ pc' = "exit"
    /\ UNCHANGED <<devices, cube, accessories, chars, stop_event, jobs, log,
                 last_update, stop_pc, init_kwargs, update_interval,
                 updating, hub_io>>

\* A refresh that runs discovery again and keeps only devices with a reading.
update_ok_rediscovers(new) ==
    /\ state = "Running" /\ pc = "refresh"
    /\ \A d \in DeviceIds : new[d].type = devices[d].type
    /\ devices' = new
    /\ accessories' = {d \in accessories : new[d].actual_temperature # None}
    /\ chars' = [d \in accessories' |-> Thermostat_update(chars[d], new[d])]
    /\ pc' = "wait"
    /\ last_update' = "ok"
    /\ updating' = updating - 1
    /\ UNCHANGED <<cube, state, stop_event, jobs, log, stop_pc, init_kwargs,
                 update_interval, hub_io>>

\* MaxBridge.update, after the awaited cube.update job returned: the device
\* objects hold what the cube reported (new), and acc.update() runs for every
\* accessory.
update_ok(new) ==
    /\ state = "Running" /\ pc = "refresh"
    /\ \A d \in DeviceIds : new[d].type = devices[d].type
    /\ devices' = new
    /\ chars' = [d \in accessories |-> Thermostat_update(chars[d], new[d])]
    /\ pc' = "wait"
    /\ last_update' = "ok"
    /\ updating' = updating - 1
    /\ UNCHANGED <<cube, accessories, state, stop_event, jobs, log, stop_pc,
                 init_kwargs, update_interval, hub_io>>

\* update() that runs acc.update() also when cube.update timed out.
update_timeout_pushes ==
    /\ state = "Running" /\ pc = "refresh"
    /\ chars' = [d \in accessories |-> Thermostat_update(chars[d], devices[d])]
    /\ pc' = "wait"
    /\ last_update' = "timeout"
    /\ updating' = updating - 1
    /\ UNCHANGED <<devices, cube, accessories, state, stop_event, jobs, log,
                 stop_pc, init_kwargs, update_interval, hub_io>>

\* update() that lets socket.timeout escape, ending run().
update_timeout_fatal ==
    /\ state = "Running" /\ pc = "refresh"
    /\ state' = "Failed"
    /\ pc' = "exit"
    /\ last_update' = "timeout"
    /\ updating' = updating - 1
    /\ UNCHANGED <<devices, cube, accessories, chars, stop_event, jobs, log,
                 stop_pc, init_kwargs, update_interval, hub_io>>

\* MaxBridge.update: cube.update raised socket.timeout; warning, cycle over.
update_timeout ==
    /\ state = "Running" /\ pc = "refresh"
    /\ pc' = "wait"
    /\ last_update' = "timeout"
    /\ updating' = updating - 1
    /\ UNCHANGED <<devices, cube, accessories, chars, state, stop_event,
                 jobs, log, stop_pc, init_kwargs, update_interval, hub_io>>

\* The driver sets aio_stop_event.
stop ==
    /\ state = "Running" /\ ~stop_event
    /\ stop_event' = TRUE
    /\ stop_pc' = pc
    /\ UNCHANGED <<devices, cube, accessories, chars, state, pc, jobs, log,
                 last_update, init_kwargs, update_interval, updating, hub_io>>

\* ------------------------------------------------- Thermostat (set target)

\* Timeouts the retry tasks have met so far.
RECURSIVE TotalTimeouts(_)
TotalTimeouts(js) ==
    IF js = << >> THEN 0 ELSE Head(js).timeouts + TotalTimeouts(Tail(js))

NewJob(d, value) ==
    [device |-> d, value |-> value, st |-> "scheduled",
     attempts |-> 0, timeouts |-> 0, successes |-> 0]

\* A setter that calls cube.set_target_temperature itself before returning.
_set_target_temperature_inline(d, value) ==
    /\ state \in {"Running", "Stopped"}
    /\ d \in accessories
    /\ Len(jobs) < MaxWrites
    /\ jobs' = Append(jobs, [NewJob(d, value) EXCEPT !.st = "calling", !.attempts = 1])
    /\ hub_io' = hub_io \cup {[op |-> "set_target_temperature", via |-> "inline"]}
    /\ UNCHANGED <<devices, cube, accessories, chars, state, pc, stop_event,
                 log, last_update, stop_pc, init_kwargs, update_interval,
                 updating>>

\* Thermostat._set_target_temperature: driver.add_job(coroutine)
_set_target_temperature(d, value) ==
    /\ state \in {"Running", "Stopped"}
    /\ d \in accessories
    /\ Len(jobs) < MaxWrites
    /\ jobs' = Append(jobs, NewJob(d, value))
    /\ UNCHANGED <<devices, cube, accessories, chars, state, pc, stop_event,
                 log, last_update, stop_pc, init_kwargs, update_interval,
                 updating, hub_io>>

\* A retry loop that hands over the next call without awaiting the last one.
_do_set_target_temperature_call_noawait(i) ==
    /\ i \in 1..Len(jobs)
    /\ jobs[i].st \in {"scheduled", "calling"}
    /\ jobs[i].attempts <= MaxTimeouts + 1
    /\ jobs' = [jobs EXCEPT ![i].st = "calling", ![i].attempts = @ + 1]
    /\ hub_io' = hub_io \cup {[op |-> "set_target_temperature", via |-> "job"]}
    /\ UNCHANGED <<devices, cube, accessories, chars, state, pc, stop_event,
                 log, last_update, stop_pc, init_kwargs, update_interval,
                 updating>>

\* _do_set_target_temperature: the loop body hands cube.set_target_temperature
\* to the executor and awaits it.
_do_set_target_temperature_call(i) ==
    /\ i \in 1..Len(jobs)
    /\ jobs[i].st = "scheduled"
    /\ jobs' = [jobs EXCEPT ![i].st = "calling", ![i].attempts = @ + 1]
    /\ hub_io' = hub_io \cup {[op |-> "set_target_temperature", via |-> "job"]}
    /\ UNCHANGED <<devices, cube, accessories, chars, state, pc, stop_event,
                 log, last_update, stop_pc, init_kwargs, update_interval,
                 updating>>

\* A retry loop that ends at the first socket.timeout.
_do_set_target_temperature_timeout_gives_up(i) ==
    /\ i \in 1..Len(jobs)
    /\ jobs[i].st = "calling"
    /\ TotalTimeouts(jobs) < MaxTimeouts
    /\ jobs' = [jobs EXCEPT ![i].st = "failed", ![i].timeouts = @ + 1]
    /\ UNCHANGED <<devices, cube, accessories, chars, state, pc, stop_event,
                 log, last_update, stop_pc, init_kwargs, update_interval,
                 updating, hub_io>>

\* _do_set_target_temperature: the job raised socket.timeout; warning, loop again.
_do_set_target_temperature_timeout(i) ==
    /\ i \in 1..Len(jobs)
    /\ jobs[i].st = "calling"
    /\ TotalTimeouts(jobs) < MaxTimeouts
    /\ jobs' = [jobs EXCEPT ![i].st = "scheduled", ![i].timeouts = @ + 1]
    /\ UNCHANGED <<devices, cube, accessories, chars, state, pc, stop_event,
                 log, last_update, stop_pc, init_kwargs, update_interval,
                 updating, hub_io>>

\* A retry loop without the break after a success.
_do_set_target_temperature_done_nobreak(i) ==
    /\ i \in 1..Len(jobs)
    /\ jobs[i].st = "calling"
    /\ jobs[i].successes < 2
    /\ devices' = [devices EXCEPT ![jobs[i].device].target_temperature = jobs[i].value]
    /\ jobs' = [jobs EXCEPT ![i].st = "scheduled", ![i].successes = @ + 1]
    /\ UNCHANGED <<cube, accessories, chars, state, pc, stop_event, log,
                 last_update, stop_pc, init_kwargs, update_interval,
                 updating, hub_io>>

\* _do_set_target_temperature: the job returned; the cube stored the value in
\* the device; debug record, break.
_do_set_target_temperature_done(i) ==
    /\ i \in 1..Len(jobs)
    /\ jobs[i].st = "calling"
    /\ devices' = [devices EXCEPT ![jobs[i].device].target_temperature = jobs[i].value]
    /\ jobs' = [jobs EXCEPT ![i].st = "done", ![i].successes = @ + 1]
    /\ UNCHANGED <<cube, accessories, chars, state, pc, stop_event, log,
                 last_update, stop_pc, init_kwargs, update_interval,
                 updating, hub_io>>

\* The bridge and its retry tasks; the cube reports unchanged readings.
Next ==
    \/ discover_ok
    \/ discover_timeout
    \/ run_tick
    \/ run_exit
    \/ update_ok(devices)
    \/ update_timeout
    \/ stop
    \/ \E d \in DeviceIds, value \in Temps : _set_target_temperature(d, value)
    \/ \E i \in 1..MaxWrites : _do_set_target_temperature_call(i)
    \/ \E i \in 1..MaxWrites : _do_set_target_temperature_timeout(i)
    \/ \E i \in 1..MaxWrites : _do_set_target_temperature_done(i)

Spec == Init /\ [][Next]_vars

\* The bridge alone; every refresh brings a new reading of one device.
NextRefresh ==
    \/ discover_ok
    \/ discover_timeout
    \/ run_tick
    \/ run_exit
    \/ \E d \in DeviceIds, r \in DeviceStates : update_ok([devices EXCEPT ![d] = r])
    \/ update_timeout
    \/ stop

SpecRefresh == InitRefresh /\ [][NextRefresh]_vars

\* The event loop resumes every task that is ready, and an executor job that
\* does not time out returns.
Fairness ==
    \A i \in 1..MaxWrites :
        /\ WF_vars(_do_set_target_temperature_call(i))
        /\ WF_vars(_do_set_target_temperature_done(i))

\* The retry tasks next to a bridge that is stopped at any moment; the refresh
\* loop, which shares nothing with them, is left waiting.
NextRetry ==
    \/ discover_ok
    \/ discover_timeout
    \/ stop
    \/ run_exit
    \/ \E d \in DeviceIds, value \in Temps : _set_target_temperature(d, value)
    \/ \E i \in 1..MaxWrites : _do_set_target_temperature_call(i)
    \/ \E i \in 1..MaxWrites : _do_set_target_temperature_timeout(i)
    \/ \E i \in 1..MaxWrites : _do_set_target_temperature_done(i)

\* The cube stops timing out once MaxTimeouts set-commands have timed out.
SpecRetry == Init /\ [][NextRetry]_vars /\ Fairness


\* ------------------------------------------------------------ properties

Known(t) == t # None

\* A step in which a cube call is handed to the executor.
RefreshIssued == pc # "refresh" /\ pc' = "refresh"
SetCommandIssued ==
    \E i \in 1..Len(jobs') :
        /\ jobs'[i].st = "calling"
        /\ (i > Len(jobs) \/ jobs[i].st # "calling")
\* The step in which update() catches the timeout of cube.update.
RefreshTimedOut == pc = "refresh" /\ pc' # "refresh" /\ last_update' = "timeout"

\* C1: when MaxCubeConnection times out in discover(), construction still
\* completes: no accessory is added and the bridge is Running (or has been
\* stopped since), never failed.
C1_ConnectionTimeoutNonFatal ==
    log.error > 0 => (state \in {"Running", "Stopped"} /\ accessories = {})

\* C2: for a Thermostat whose actual and target temperatures are both known,
\* _current_state() is Off(0) iff actual >= target and Heat(1) otherwise; with
\* either unknown it is Off(0).
C2_CurrentStateOffIffActualGeqTarget ==
    \A d \in accessories :
        LET a == devices[d].actual_temperature
            t == devices[d].target_temperature
        IN  IF Known(a) /\ Known(t)
            THEN /\ (_current_state(devices[d]) = 0) <=> (a >= t)
                 /\ _current_state(devices[d]) \in {0, 1}
            ELSE _current_state(devices[d]) = 0

\* C3: a write only schedules the retry task: in the step of
\* _set_target_temperature the new task has made no attempt, no set command
\* of any task is issued and the devices are untouched.
C3_SetterOnlySchedules ==
    [][Len(jobs') > Len(jobs) =>
          /\ jobs'[Len(jobs')].st = "scheduled"
          /\ jobs'[Len(jobs')].attempts = 0
          /\ ~SetCommandIssued
          /\ devices' = devices]_vars

C3_Witness ==
    \E i \in 1..Len(jobs) :
        /\ jobs[i].st = "scheduled" /\ jobs[i].attempts = 0
        /\ \E k \in 1..Len(jobs) : jobs[k].timeouts > 0

\* C4: a retry task makes one attempt per timeout plus the successful one,
\* goes back to attempting after each timeout, logs success exactly once (when
\* it ends), never acts after it ended, and its success leaves the device's
\* target temperature equal to the written value.
C4_RetryUntilFirstSuccess ==
    [][\A i \in 1..Len(jobs') :
          LET j == jobs'[i] IN
          /\ j.successes = (IF j.st = "done" THEN 1 ELSE 0)
          /\ j.attempts = j.timeouts + (IF j.st = "scheduled" THEN 0 ELSE 1)
          /\ i <= Len(jobs) =>
                /\ jobs[i].st = "done" => j = jobs[i]
                /\ (jobs[i].st = "calling" /\ j.st # "calling") =>
                      \/ j.st = "scheduled" /\ j.timeouts = jobs[i].timeouts + 1
                      \/ /\ j.st = "done" /\ j.timeouts = jobs[i].timeouts
                         /\ devices'[j.device].target_temperature = j.value]_vars

C4_Witness ==
    \E i \in 1..Len(jobs) :
        /\ jobs[i].st = "done" /\ jobs[i].timeouts = 2
        /\ devices[jobs[i].device].target_temperature = jobs[i].value

\* C5: once every write to a device has been delivered, the device's target
\* temperature is the value of the most recent write.
C5_LastWriteWins ==
    \A d \in accessories :
        LET W == {i \in 1..Len(jobs) : jobs[i].device = d} IN
        (W # {} /\ \A i \in W : jobs[i].st = "done") =>
            devices[d].target_temperature =
                jobs[CHOOSE i \in W : \A k \in W : k <= i].value

\* C6: a refresh cycle whose cube.update times out leaves every
\* characteristic value of every accessory as it was.
C6_FailedRefreshChangesNoCharacteristic ==
    [][RefreshTimedOut => chars' = chars]_vars

C6_Witness ==
    /\ last_update = "timeout"
    /\ accessories # {}
    /\ \E d \in accessories : chars[d] # Thermostat_update(chars[d], devices[d])

\* C7 as stated: once the stop event is set while run() is waiting, no cube
\* call of any kind is issued any more.
C7_NoHubCallAfterStop ==
    [][stop_pc = "wait" => ~(RefreshIssued \/ SetCommandIssued)]_vars

\* C7 amended: once the stop event is set while run() is waiting, run() leaves
\* its wait only by ending, and no cube.update is issued any more (set commands
\* of retry tasks still are).
C7_NoRefreshAfterStop ==
    [][stop_pc = "wait" =>
          /\ ~RefreshIssued
          /\ (pc = "wait" /\ pc' # "wait") => (state' = "Stopped" /\ pc' = "exit")
          /\ stop_pc' = "wait"]_vars

C7_Witness == stop_pc = "wait" /\ state = "Stopped" /\ last_update # "none"

\* C8: a timed-out cube.update ends its cycle at once (no second attempt, no
\* accessory update) with the bridge still Running; after a failed cycle the
\* next thing run() does is another refresh, or ending when the stop event is
\* set; and Running is left only for Stopped, with the stop event set.
C8_RefreshTimeoutNonFatal ==
    [][/\ RefreshTimedOut => (state' = "Running" /\ pc' = "wait" /\ chars' = chars)
       /\ (last_update = "timeout" /\ pc = "wait" /\ pc' # "wait") =>
             IF stop_event THEN state' = "Stopped" ELSE RefreshIssued /\ state' = "Running"
       /\ (state = "Running" /\ state' # "Running") =>
             (stop_event /\ state' = "Stopped")]_vars

C8_Witness == state = "Running" /\ pc = "refresh" /\ last_update = "timeout"

\* C9: accessories are updated only in the step in which the cycle's
\* cube.update has returned successfully, all of them together and from the
\* device state that refresh left.
C9_RefreshBeforeAccessoryUpdate ==
    [][(state = "Running" /\ chars' # chars) =>
          /\ pc = "refresh" /\ last_update' = "ok"
          /\ chars' = [d \in accessories |-> Thermostat_update(chars[d], devices'[d])]]_vars

C9_Witness ==
    /\ last_update = "ok"
    /\ accessories # {}
    /\ \A d \in accessories : chars[d] # Thermostat_init(devices[d])

\* C10: CurrentTemperature (the getter, and the value update() pushed) is the
\* actual temperature when that is known, 0 included; else the target
\* temperature when that is known; else 0.
C10_CurrentTemperatureFallback ==
    \A d \in accessories :
        LET a == devices[d].actual_temperature
            t == devices[d].target_temperature
            expected == IF Known(a) THEN a ELSE IF Known(t) THEN t ELSE 0
        IN  /\ CurrentTemperature_getter(devices[d]) = expected
            /\ last_update = "ok" => chars[d].CurrentTemperature = expected

\* C11: _target_state() is Automatic(3) when the device mode is automatic or
\* unset (None), and Off(0) for every other mode; the value update() pushed
\* follows the same rule.
C11_TargetStateAutomaticOrUnset ==
    \A d \in accessories :
        LET m == devices[d].mode
            expected == IF m = None \/ m = MAX_DEVICE_MODE_AUTOMATIC THEN 3 ELSE 0
        IN  /\ _target_state(devices[d]) = expected
            /\ last_update = "ok" => chars[d].TargetHeatingCoolingState = expected

C11_Witness ==
    /\ last_update = "ok"
    /\ \E d \in accessories :
           devices[d].mode = None /\ chars[d].TargetHeatingCoolingState = 3

C13_InvalidDeviceKind ==
    \A d \in DeviceIds :
        devices[d].type # MAX_THERMOSTAT =>
            /\ Thermostat_new(devices[d]).error = "ValueError"
            /\ Thermostat_new(devices[d]).chars = << >>
            /\ d \notin accessories
            /\ d \notin DOMAIN chars

C13_Witness ==
    state = "Running" /\ \E d \in DeviceIds : devices[d].type = MAX_WINDOW_SHUTTER

\* C14: the wait of run() is configurable: a bridge constructed with
\* update_interval = v waits up to v seconds per tick, and one constructed
\* without the argument waits up to the default of 60 seconds.
C14_UpdateIntervalConfigurable ==
    [][(state = "Uninitialized" /\ state' = "Running") =>
           update_interval' =
               IF init_kwargs.update_interval = None
               THEN DEFAULT_UPDATE_INTERVAL
               ELSE init_kwargs.update_interval]_vars

\* C15: once the set-command stops timing out, every scheduled retry task
\* eventually succeeds and ends; a timeout leaves the task ready for its next
\* attempt (no limit, no backoff), ends nothing and reaches nothing outside
\* the task.
C15_RetryEventuallySucceeds ==
    /\ \A i \in 1..MaxWrites :
           (Len(jobs) >= i) ~>
               (Len(jobs) >= i /\ jobs[i].st = "done" /\ jobs[i].successes = 1)
    /\ [][\A i \in 1..Len(jobs) :
              (Len(jobs') = Len(jobs) /\ jobs'[i].timeouts > jobs[i].timeouts) =>
                  /\ jobs'[i].st = "scheduled"
                  /\ jobs'[i].timeouts = jobs[i].timeouts + 1
                  /\ \A k \in 1..Len(jobs) : k # i => jobs'[k] = jobs[k]
                  /\ UNCHANGED <<state, pc, log, devices, chars, accessories>>]_vars

C15_Witness ==
    \E i \in 1..Len(jobs) :
        /\ jobs[i].st = "done" /\ jobs[i].successes = 1
        /\ jobs[i].timeouts > 0 /\ jobs[i].attempts = jobs[i].timeouts + 1

\* C16: discovery leaves one accessory per device that is a thermostat at
\* that moment, and from then on no step (refresh, write, retry, stop) adds or
\* removes an accessory, and discovery does not run again.
C16_AdapterSetFixedAfterDiscovery ==
    [][/\ (state = "Uninitialized" /\ state' = "Running") =>
              accessories' = {d \in DeviceIds : devices[d].type = MAX_THERMOSTAT}
       /\ state # "Uninitialized" =>
              /\ accessories' = accessories
              /\ DOMAIN chars' = DOMAIN chars
              /\ state' # "Uninitialized"
              /\ [op |-> "devices", via |-> "inline"] \in hub_io' <=>
                     [op |-> "devices", via |-> "inline"] \in hub_io]_vars

C16_Witness ==
    /\ state = "Stopped" /\ accessories # {} /\ last_update = "ok"
    /\ \E i \in 1..Len(jobs) : jobs[i].st = "done" /\ jobs[i].timeouts > 0

\* C17: after a successful refresh every accessory's CurrentTemperature,
\* TargetTemperature, CurrentHeatingCoolingState and TargetHeatingCoolingState
\* equal what the accessory's getters and state functions give for the device
\* state that refresh left, and TemperatureDisplayUnits is still Celsius(0).
C17_UpdatePushesDerivedValues ==
    \A d \in accessories :
        /\ chars[d].TemperatureDisplayUnits = 0
        /\ last_update = "ok" =>
               /\ chars[d].CurrentTemperature = CurrentTemperature_getter(devices[d])
               /\ chars[d].TargetTemperature = TargetTemperature_getter(devices[d])
               /\ chars[d].CurrentHeatingCoolingState = _current_state(devices[d])
               /\ chars[d].TargetHeatingCoolingState = _target_state(devices[d])

C17_Witness ==
    /\ last_update = "ok" /\ pc = "wait"
    /\ \E d \in accessories :
           /\ devices[d].actual_temperature = 1 /\ chars[d].CurrentTemperature = 1
           /\ devices[d].target_temperature = 0 /\ chars[d].TargetTemperature = 0
           /\ devices[d].mode = MAX_DEVICE_MODE_MANUAL
           /\ chars[d].TargetHeatingCoolingState = 0

\* C18: the stop signal and the return of run() leave every retry task as it
\* is; after the stop signal a task that is ready can still attempt the
\* set-command, and every task still ends with a success.
C18_StopLeavesRetryTasks ==
    /\ [][(stop_event' # stop_event \/ state' # state) => jobs' = jobs]_vars
    /\ [](stop_event =>
             \A i \in 1..Len(jobs) :
                 jobs[i].st = "scheduled" =>
                     ENABLED _do_set_target_temperature_call(i))
    /\ \A i \in 1..MaxWrites :
           (stop_event /\ Len(jobs) >= i) ~>
               (stop_event /\ Len(jobs) >= i /\ jobs[i].st = "done")

C18_Witness ==
    /\ state = "Stopped" /\ pc = "exit"
    /\ \E i \in 1..Len(jobs) :
           jobs[i].st = "calling" /\ jobs[i].timeouts > 0 /\ jobs[i].successes = 0

\* C19: at most one cube.update is in flight, and only while run() is inside
\* update(); each retry task has at most one set-command in flight, started
\* only after its previous attempt returned or timed out.
C19_OneHubCallPerOperation ==
    /\ updating \in {0, 1}
    /\ updating = 1 <=> pc = "refresh"
    /\ \A i \in 1..Len(jobs) :
           LET inflight == jobs[i].attempts - jobs[i].timeouts - jobs[i].successes
           IN  /\ inflight \in {0, 1}
               /\ inflight = 1 <=> jobs[i].st = "calling"

C19_Witness ==
    /\ updating = 1 /\ last_update # "none"
    /\ \E i \in 1..Len(jobs) :
           jobs[i].st = "calling" /\ jobs[i].attempts = 2 /\ jobs[i].timeouts = 1

\* C20: every hub operation the bridge and its accessories issue (connect,
\* device discovery, refresh, set-target command) goes through the driver's
\* blocking-job facility, none is called inline.
C20_AllHubIOThroughJobs ==
    \A io \in hub_io : io.via = "job"
=============================================================================
